---------------------------- MODULE Spec2Model ----------------------------
(***************************************************************************)
(* Record store of the library manager: the text-file backend              *)
(* (LibraryManager, src/library_manager.py), the relational backend        *)
(* (DatabaseManager, src/db_manager.py) and the read-only viewer           *)
(* (ViewerDataManager, src/books-viewer/viewer_data.py), and the table of  *)
(* the two windows on them (LibraryManagerGUI, src/main.py; BooksViewerGUI *)
(* on BookTableUI, src/books-viewer/viewer.py and common_ui.py).           *)
(*                                                                         *)
(* A text value is a sequence of one-character strings, so that trimming   *)
(* and exact comparison are computed character by character.  The missing  *)
(* values of the program (Python None, pandas NaN, SQL NULL) are two       *)
(* distinguished values that are no text.                                  *)
(***************************************************************************)
EXTENDS Integers, Sequences, FiniteSets, TLC

(***************************************************************************)
(* Bounds of the model.                                                    *)
(***************************************************************************)
MaxRecords == 2
MaxImportRows == 2
MaxId == 3

(***************************************************************************)
(* Values.                                                                 *)
(***************************************************************************)
Empty == << >>
None == <<"<None>">>
NaN == <<"<NaN>">>

IsNull(v) == v \in {None, NaN}

\* Python truthiness of an argument that is a str or None.
Truthy(v) == ~IsNull(v) /\ v # Empty

\* A number that pandas.read_csv parsed: the tag and the digits of str(v),
\* <<"<int>", "7">> for 7 and <<"<float>", "7", ".", "0">> for 7.0.
IsNumber(v) == v # << >> /\ v[1] \in {"<int>", "<float>"}

\* str(v) / Series.astype(str): text stays, None gives 'None', NaN gives
\* 'nan', a number gives its digits.
AsStr(v) ==
    IF v = None THEN <<"N", "o", "n", "e">>
    ELSE IF v = NaN THEN <<"n", "a", "n">>
    ELSE IF IsNumber(v) THEN Tail(v)
    ELSE v

IsSpace(c) == c = " "

RECURSIVE LStrip(_)
LStrip(s) ==
    IF s # Empty /\ IsSpace(Head(s)) THEN LStrip(Tail(s)) ELSE s

RECURSIVE RStrip(_)
RStrip(s) ==
    IF s # Empty /\ IsSpace(s[Len(s)])
    THEN RStrip(SubSeq(s, 1, Len(s) - 1))
    ELSE s

\* str.strip()
Strip(s) == RStrip(LStrip(s))

COLUMNS ==
    <<"ISBN", "Title", "Author", "Publisher", "Year", "Signature",
      "Description", "Keywords">>

ColumnSet == {COLUMNS[i] : i \in 1..Len(COLUMNS)}

\* The 8-tuple book_data, by column name.
BookData(isbn, title, signature) ==
    [ISBN |-> isbn, Title |-> title, Author |-> Empty, Publisher |-> Empty,
     Year |-> Empty, Signature |-> signature, Description |-> Empty,
     Keywords |-> Empty]

(***************************************************************************)
(* Inputs of the operations.                                               *)
(***************************************************************************)
IsbnInputs == {Empty, <<"X">>}
TitleInputs == {<<"T">>, <<"U">>}
SignatureInputs == {Empty, <<" ">>, <<"A">>}

BookInputs ==
    {BookData(i, t, s) : i \in IsbnInputs, t \in TitleInputs,
                         s \in SignatureInputs}

\* original_isbn as edit_book passes it: the text of the first cell.
OriginalIsbnInputs == IsbnInputs \cup {<<" ", "X">>}

IndexInputs == (0 - (MaxRecords + 1)) .. (MaxRecords + 1)

\* Rows of an import source as pandas.read_csv delivers them: an empty cell
\* is NaN, text is kept with its blanks.
ImportRowInputs ==
    {BookData(<<"X">>, <<"T">>, <<"a">>),
     BookData(NaN, <<"T">>, <<" ", "A">>),
     BookData(<<" ", "X">>, <<"T">>, NaN)}

SeqsUpTo(S, n) == UNION {[1..k -> S] : k \in 0..n}

\* The sources with the eight columns; a source with a ninth column; and
\* sources that lack a column, without rows and with a row.
ImportSources ==
    {[columns |-> ColumnSet, rows |-> r] :
        r \in SeqsUpTo(ImportRowInputs, MaxImportRows)}
    \cup {[columns |-> ColumnSet \cup {"Shelf"},
           rows |-> <<BookData(<<"X">>, <<"U">>, <<"a">>)
                         @@ [Shelf |-> <<"S">>]>>]}
    \cup {[columns |-> ColumnSet \ {"Signature"}, rows |-> << >>]}
    \cup {[columns |-> ColumnSet \ {"Title"},
           rows |-> <<[c \in ColumnSet \ {"Title"} |->
                         BookData(<<"X">>, <<"T">>, <<"a">>)[c]]>>]}

(***************************************************************************)
(* Results of a call: "ok" or the exception raised.                        *)
(***************************************************************************)
Ok == "ok"
SignatureExists == "ValueError: Signature already exists"
NotFound == "ValueError: Book with ISBN not found"
InvalidIndex == "ValueError: Invalid record index"
PyIndexError == "IndexError"
IntegrityError == "sqlite3.IntegrityError"
MissingColumns == "ValueError: Missing required columns"

(***************************************************************************)
(* Helpers on sequences.                                                   *)
(***************************************************************************)
Min(S) == CHOOSE x \in S : \A y \in S : x <= y

RemoveAt(s, i) == SubSeq(s, 1, i - 1) \o SubSeq(s, i + 1, Len(s))

(***************************************************************************)
(* The delimited text file.  A file is the table of its cells, each cell   *)
(* the text between two separators; the header line is always the eight    *)
(* column names, since every DataFrame written has these columns.          *)
(* DataFrame.to_csv writes a missing value as the empty text.              *)
(* pandas.read_csv types every column by its cells: Signature and Year are *)
(* declared dtype object and keep their text; another column is int64 when *)
(* every cell is a run of digits, float64 when every cell is a number or   *)
(* missing, and object otherwise.  A cell that is empty, 'NA' or 'nan' is  *)
(* read as NaN.                                                            *)
(***************************************************************************)
NoFile == [exists |-> FALSE, rows |-> << >>]

ToCsvCell(v) == IF IsNull(v) THEN Empty ELSE AsStr(v)

\* DataFrame.to_csv(path, sep=';', index=False)
ToCsv(rows) ==
    [exists |-> TRUE,
     rows |-> [i \in 1..Len(rows) |->
                  [c \in ColumnSet |-> ToCsvCell(rows[i][c])]]]

\* The default na_values of read_csv, among the texts of the model.
NaTexts == {Empty, <<"N", "A">>, <<"n", "a", "n">>}

Digits == {"0", "7"}

IsDigits(s) == s # Empty /\ \A k \in 1..Len(s) : s[k] \in Digits

\* The text of a float as to_csv writes it: digits, then '.0'.
IsFloatText(s) ==
    /\ Len(s) >= 3
    /\ IsDigits(SubSeq(s, 1, Len(s) - 2))
    /\ SubSeq(s, Len(s) - 1, Len(s)) = <<".", "0">>

\* The digits of the integer a run of digits denotes: no leading zeros.
RECURSIVE IntDigits(_)
IntDigits(s) ==
    IF Len(s) > 1 /\ Head(s) = "0" THEN IntDigits(Tail(s)) ELSE s

IntPart(s) == IF IsFloatText(s) THEN SubSeq(s, 1, Len(s) - 2) ELSE s

\* The cell k of column c of the DataFrame read_csv builds from the cells.
ReadCsvCell(cells, c, k) ==
    LET present == {j \in 1..Len(cells) : cells[j][c] \notin NaTexts} IN
    IF cells[k][c] \in NaTexts THEN NaN
    ELSE IF c \in {"Signature", "Year"} THEN cells[k][c]
    ELSE IF \A j \in present : IsDigits(cells[j][c])
    THEN IF Cardinality(present) = Len(cells)
         THEN <<"<int>">> \o IntDigits(cells[k][c])
         ELSE <<"<float>">> \o IntDigits(cells[k][c]) \o <<".", "0">>
    ELSE IF \A j \in present :
               IsDigits(cells[j][c]) \/ IsFloatText(cells[j][c])
    THEN <<"<float>">> \o IntDigits(IntPart(cells[k][c])) \o <<".", "0">>
    ELSE cells[k][c]

\* pd.read_csv(path, sep=';', dtype={'Signature': 'object', 'Year': 'object'})
ReadCsv(file) ==
    [columns |-> ColumnSet,
     rows |-> [k \in 1..Len(file.rows) |->
                  [c \in ColumnSet |-> ReadCsvCell(file.rows, c, k)]]]

(***************************************************************************)
(* Text-file backend: LibraryManager.  df is the DataFrame self.df, a      *)
(* sequence of rows in positional order (the index is always 0..n-1).      *)
(* Every operation is a function from the DataFrame and the arguments to   *)
(* the result of the call and the DataFrame it leaves.                     *)
(***************************************************************************)
\* load_data: the DataFrame of the file, the empty DataFrame without a file.
LoadData(file) == IF file.exists THEN ReadCsv(file).rows ELSE << >>

\* save_data: the file that self.df.to_csv leaves.
SaveData(df) == ToCsv(df)

TextGetAllRecords(df) == df

\* 'Signature': signature if signature else None
NullIfFalsy(v) == IF Truthy(v) THEN v ELSE None

\* add_record with the duplicate check on trimmed Signatures, the way
\* import_csv_merge compares them.
TextAddRecordTrimmed(df, book_data) ==
    LET signature == book_data.Signature IN
    IF Truthy(signature)
       /\ \E i \in 1..Len(df) :
             /\ ~IsNull(df[i].Signature)
             /\ Strip(df[i].Signature) = Strip(signature)
    THEN [result |-> SignatureExists, df |-> df]
    ELSE [result |-> Ok,
          df |-> Append(df, [book_data EXCEPT
                                !.Signature = NullIfFalsy(signature)])]

TextAddRecord(df, book_data) ==
    LET signature == book_data.Signature IN
    IF Truthy(signature)
       /\ \E i \in 1..Len(df) : df[i].Signature = signature
    THEN [result |-> SignatureExists, df |-> df]
    ELSE [result |-> Ok,
          df |-> Append(df, [book_data EXCEPT
                                !.Signature = NullIfFalsy(signature)])]

\* lookup_isbn = original_isbn if original_isbn else isbn
TextLookupIsbn(book_data, original_isbn) ==
    IF Truthy(original_isbn) THEN original_isbn ELSE book_data.ISBN

\* The positions of isbn_match.
TextIsbnMatch(df, lookup_isbn) ==
    {i \in 1..Len(df) : Strip(AsStr(df[i].ISBN)) = Strip(AsStr(lookup_isbn))}

\* isbn_match.index[-1]: the last matching row instead of the first.
TextLastIndex(df, lookup_isbn) ==
    CHOOSE i \in TextIsbnMatch(df, lookup_isbn) :
        \A j \in TextIsbnMatch(df, lookup_isbn) : j <= i

\* isbn_match.index[0]
TextActualIndex(df, lookup_isbn) == Min(TextIsbnMatch(df, lookup_isbn))

TextUpdateRecord(df, book_data, original_isbn) ==
    LET signature == book_data.Signature
        lookup_isbn == TextLookupIsbn(book_data, original_isbn)
    IN
    IF TextIsbnMatch(df, lookup_isbn) = {}
    THEN [result |-> NotFound, df |-> df]
    ELSE
      LET actual_index == TextActualIndex(df, lookup_isbn) IN
      IF Truthy(signature)
         /\ \E j \in 1..Len(df) :
               j # actual_index /\ df[j].Signature = signature
      THEN [result |-> SignatureExists, df |-> df]
      ELSE [result |-> Ok,
            df |-> [df EXCEPT ![actual_index] =
                       [book_data EXCEPT
                           !.Signature = NullIfFalsy(signature)]]]

\* self.df.index[index]: Python indexing, a negative index counts from the
\* end.  The value is the 1-based position, 0 when IndexError is raised.
PyPosition(n, index) ==
    IF 0 <= index /\ index < n THEN index + 1
    ELSE IF index < 0 /\ 0 - n <= index THEN n + index + 1
    ELSE 0

TextDeleteRecord(df, index) ==
    LET pos == PyPosition(Len(df), index) IN
    IF pos = 0
    THEN [result |-> PyIndexError, df |-> df]
    ELSE [result |-> Ok, df |-> RemoveAt(df, pos)]

\* df_import[self.COLUMNS]: the eight columns of the rows, in COLUMNS order.
Reorder(rows) ==
    [i \in 1..Len(rows) |-> [c \in ColumnSet |-> rows[i][c]]]

\* The stripped text of the non-null Signatures of the rows.
StrippedSignatures(rows) ==
    {Strip(AsStr(rows[i].Signature)) :
        i \in {j \in 1..Len(rows) : ~IsNull(rows[j].Signature)}}

\* The method has no return statement: the caller gets None.
TextImportCsvMerge(df, source) ==
    IF ColumnSet \ source.columns # {}
    THEN [result |-> MissingColumns, df |-> df, saved |-> FALSE,
          returned |-> None]
    ELSE
      LET current_sigs == StrippedSignatures(df)
          IsNew(row) ==
              ~(~IsNull(row.Signature)
                /\ Strip(AsStr(row.Signature)) \in current_sigs)
          new_records == SelectSeq(Reorder(source.rows), IsNew)
      IN [result |-> Ok, df |-> df \o new_records,
          saved |-> Len(new_records) > 0, returned |-> None]

\* import_csv that assigns self.df before it validates the columns.
TextImportCsvAssignsFirst(df, source) ==
    IF ColumnSet \ source.columns # {}
    THEN [result |-> MissingColumns, df |-> source.rows]
    ELSE [result |-> Ok, df |-> Reorder(source.rows)]

\* import_csv that appends the source to self.df.
TextImportCsvAppends(df, source) ==
    IF ColumnSet \ source.columns # {}
    THEN [result |-> MissingColumns, df |-> df]
    ELSE [result |-> Ok, df |-> df \o Reorder(source.rows)]

TextImportCsv(df, source) ==
    IF ColumnSet \ source.columns # {}
    THEN [result |-> MissingColumns, df |-> df]
    ELSE [result |-> Ok, df |-> Reorder(source.rows)]

\* check_import_conflicts that compares the Signatures as they are stored.
TextCheckImportConflictsExact(df, source) ==
    IF ColumnSet \ source.columns # {}
    THEN [result |-> MissingColumns, conflicts |-> {}]
    ELSE [result |-> Ok,
          conflicts |->
              {df[i].Signature :
                  i \in {j \in 1..Len(df) : ~IsNull(df[j].Signature)}}
              \cap {source.rows[i].Signature :
                       i \in {j \in 1..Len(source.rows) :
                                 ~IsNull(source.rows[j].Signature)}}]

\* check_import_conflicts: the returned list, as a set.
TextCheckImportConflicts(df, source) ==
    IF ColumnSet \ source.columns # {}
    THEN [result |-> MissingColumns, conflicts |-> {}]
    ELSE [result |-> Ok,
          conflicts |-> StrippedSignatures(df)
                           \cap StrippedSignatures(source.rows)]

(***************************************************************************)
(* Relational backend: DatabaseManager.  books is the table in id order,   *)
(* a row is [id, data]; nextId is the id AUTOINCREMENT gives next.  The    *)
(* SQL statements come first, then the methods that issue them.            *)
(***************************************************************************)
\* The column declared Signature TEXT, without UNIQUE.
NoUniqueConstraint(books, signature, id) == TRUE

\* Signature TEXT UNIQUE: no other row holds the same non-NULL Signature.
UniqueSignatureOk(books, signature, id) ==
    IsNull(signature)
    \/ ~\E i \in 1..Len(books) :
          books[i].id # id /\ books[i].data.Signature = signature

\* INSERT INTO books (...) VALUES (...)
SqlInsert(books, nextId, values) ==
    IF UniqueSignatureOk(books, values.Signature, nextId)
    THEN [result |-> Ok,
          books |-> Append(books, [id |-> nextId, data |-> values]),
          nextId |-> nextId + 1]
    ELSE [result |-> IntegrityError, books |-> books, nextId |-> nextId]

\* SELECT COUNT(*) FROM books WHERE Signature = ?
SqlCountSignature(books, signature) ==
    Cardinality({i \in 1..Len(books) : books[i].data.Signature = signature})

\* SELECT COUNT(*) FROM books WHERE Signature = ? AND id != ?
SqlCountSignatureOther(books, signature, id) ==
    Cardinality({i \in 1..Len(books) :
                    books[i].data.Signature = signature /\ books[i].id # id})

\* SELECT id FROM books WHERE ISBN = ? with fetchone(): the table is scanned
\* in id order; 0 stands for no row.
SqlSelectId(books, isbn) ==
    LET hits == {i \in 1..Len(books) : books[i].data.ISBN = isbn} IN
    IF hits = {} THEN 0 ELSE books[Min(hits)].id

\* UPDATE books SET ... WHERE id = ?
SqlUpdate(books, values, id) ==
    IF ~\E i \in 1..Len(books) : books[i].id = id
    THEN [result |-> Ok, books |-> books]
    ELSE IF UniqueSignatureOk(books, values.Signature, id)
    THEN [result |-> Ok,
          books |-> [i \in 1..Len(books) |->
                        IF books[i].id = id
                        THEN [id |-> id, data |-> values]
                        ELSE books[i]]]
    ELSE [result |-> IntegrityError, books |-> books]

\* DELETE FROM books WHERE ISBN = ?
SqlDelete(books, isbn) ==
    LET Stays(row) == row.data.ISBN # isbn IN SelectSeq(books, Stays)

\* SELECT Signature FROM books WHERE Signature IS NOT NULL
SqlSelectSignatures(books) ==
    {books[i].data.Signature :
        i \in {j \in 1..Len(books) : ~IsNull(books[j].data.Signature)}}

\* '' if val is None else val, on every column of a row.
Sanitized(data) ==
    [c \in ColumnSet |-> IF data[c] = None THEN Empty ELSE data[c]]

DbGetAllRecords(books) == [i \in 1..Len(books) |-> Sanitized(books[i].data)]

\* if signature and signature.strip()
DbChecksSignature(signature) == Truthy(signature) /\ Strip(signature) # Empty

\* The duplicate check of add_record, on its own connection.
DbAddCheck(books, book_data) ==
    IF DbChecksSignature(book_data.Signature)
       /\ SqlCountSignature(books, book_data.Signature) > 0
    THEN SignatureExists
    ELSE Ok

\* The values add_record and update_record bind.
DbValues(book_data) ==
    [book_data EXCEPT !.Signature = NullIfFalsy(book_data.Signature)]

DbAddRecord(books, nextId, book_data) ==
    IF DbAddCheck(books, book_data) # Ok
    THEN [result |-> SignatureExists, books |-> books, nextId |-> nextId]
    ELSE SqlInsert(books, nextId, DbValues(book_data))

\* lookup_isbn = original_isbn if original_isbn else isbn
DbLookupIsbn(book_data, original_isbn) ==
    IF Truthy(original_isbn) THEN original_isbn ELSE book_data.ISBN

\* The duplicate check of update_record for the row found.
DbUpdateCheck(books, book_data, record_id) ==
    IF DbChecksSignature(book_data.Signature)
       /\ SqlCountSignatureOther(books, book_data.Signature, record_id) > 0
    THEN SignatureExists
    ELSE Ok

DbUpdateRecord(books, book_data, original_isbn) ==
    LET record_id == SqlSelectId(books, DbLookupIsbn(book_data, original_isbn))
    IN
    IF record_id = 0
    THEN [result |-> NotFound, books |-> books]
    ELSE IF DbUpdateCheck(books, book_data, record_id) # Ok
    THEN [result |-> SignatureExists, books |-> books]
    ELSE SqlUpdate(books, DbValues(book_data), record_id)

\* isbn = records[index][0] of delete_record, for a position PyPosition gives.
DbDeleteRecord(books, index) ==
    LET records == DbGetAllRecords(books)
        pos == PyPosition(Len(records), index)
    IN
    IF index >= Len(records)
    THEN [result |-> InvalidIndex, books |-> books]
    ELSE IF pos = 0
    THEN [result |-> PyIndexError, books |-> books]
    ELSE [result |-> Ok, books |-> SqlDelete(books, records[pos].ISBN)]

\* tuple(row[col] if pd.notna(row[col]) else None for col in self.COLUMNS)
NullIfNa(row) == [c \in ColumnSet |-> IF IsNull(row[c]) THEN None ELSE row[c]]

\* The loop of import_from_tsv over the rows k.. of the source, with the
\* Signatures read before the loop.
RECURSIVE DbImportLoop(_, _, _, _, _, _, _)
DbImportLoop(books, nextId, rows, k, current_sigs, imported, skipped) ==
    IF k > Len(rows)
    THEN [result |-> Ok, books |-> books, nextId |-> nextId,
          imported |-> imported, skipped |-> skipped]
    ELSE
      LET signature == rows[k].Signature IN
      IF ~IsNull(signature) /\ Strip(AsStr(signature)) \in current_sigs
      THEN DbImportLoop(books, nextId, rows, k + 1, current_sigs,
                        imported, skipped + 1)
      ELSE
        LET ins == SqlInsert(books, nextId, NullIfNa(rows[k])) IN
        IF ins.result = Ok
        THEN DbImportLoop(ins.books, ins.nextId, rows, k + 1, current_sigs,
                          imported + 1, skipped)
        ELSE DbImportLoop(books, nextId, rows, k + 1, current_sigs,
                          imported, skipped + 1)

DbImportFromTsv(books, nextId, source) ==
    IF ColumnSet \ source.columns # {}
    THEN [result |-> MissingColumns, books |-> books, nextId |-> nextId,
          imported |-> 0, skipped |-> 0]
    ELSE DbImportLoop(books, nextId, Reorder(source.rows), 1,
                      SqlSelectSignatures(books), 0, 0)

(***************************************************************************)
(* filter_records.  The criteria are the dict filters: a key that is       *)
(* absent is None, and filters.get(key) is false for None and for ''.      *)
(* The text-file backend and the viewer select rows with                   *)
(* Series.astype(str).str.contains(pat, case=False, na=False), which       *)
(* searches the regular expression pat; the relational backend selects     *)
(* them with LIKE '%pat%'.  Of the characters of the model, '.' is the     *)
(* only operator of a regular expression and '%' and '_' are the           *)
(* operators of LIKE.                                                      *)
(***************************************************************************)
\* str.lower() on one character.
LowerChar(c) ==
    CASE c = "A" -> "a"
      [] c = "B" -> "b"
      [] c = "N" -> "n"
      [] c = "O" -> "o"
      [] c = "E" -> "e"
      [] OTHER -> c

\* One character of a regular expression against one character of the text,
\* under re.IGNORECASE.
ReCharMatches(p, c) == p = "." \/ LowerChar(p) = LowerChar(c)

\* re.search(pat, text, re.IGNORECASE) for a pattern of plain characters
\* and '.'.
ReSearch(pat, text) ==
    \E start \in 0..(Len(text) - Len(pat)) :
        \A k \in 1..Len(pat) : ReCharMatches(pat[k], text[start + k])

\* astype(str).str.contains(pat, case=False, na=False) on one cell: the cell
\* is text before it is searched, so na never applies.
StrContains(cell, pat) == ReSearch(pat, AsStr(cell))

\* str.split(',')
RECURSIVE Split(_)
Split(s) ==
    LET commas == {i \in 1..Len(s) : s[i] = ","} IN
    IF commas = {}
    THEN <<s>>
    ELSE <<SubSeq(s, 1, Min(commas) - 1)>>
            \o Split(SubSeq(s, Min(commas) + 1, Len(s)))

\* The kw of the loop over keywords that pass `if kw`.
KeywordTokens(keywords) ==
    LET parts == Split(keywords)
        stripped == [i \in 1..Len(parts) |-> Strip(parts[i])]
        Kept(kw) == kw # Empty
    IN SelectSeq(stripped, Kept)

\* The column each single-value criterion is compared with.
FilterColumn ==
    [isbn |-> "ISBN", title |-> "Title", author |-> "Author",
     publisher |-> "Publisher", year |-> "Year", signature |-> "Signature"]

TextRowPasses(row, filters) ==
    /\ \A f \in DOMAIN FilterColumn :
          Truthy(filters[f]) => StrContains(row[FilterColumn[f]], filters[f])
    /\ Truthy(filters.keywords) =>
          \A k \in 1..Len(KeywordTokens(filters.keywords)) :
              StrContains(row.Keywords, KeywordTokens(filters.keywords)[k])

\* filter_records that returns the selected rows last row first.
TextFilterRecordsReversed(df, filters) ==
    LET Passes(row) == TextRowPasses(row, filters)
        result == SelectSeq(df, Passes)
    IN [i \in 1..Len(result) |-> result[Len(result) + 1 - i]]

TextFilterRecords(df, filters) ==
    LET Passes(row) == TextRowPasses(row, filters) IN SelectSeq(df, Passes)

\* ViewerDataManager: the DataFrame read from books.tsv.
ViewerGetAllRecords(df) == df

ViewerRowPasses(row, filters) ==
    /\ \A f \in DOMAIN FilterColumn :
          Truthy(filters[f]) => StrContains(row[FilterColumn[f]], filters[f])
    /\ Truthy(filters.keywords) =>
          \A k \in 1..Len(KeywordTokens(filters.keywords)) :
              StrContains(row.Keywords, KeywordTokens(filters.keywords)[k])

ViewerFilterRecords(df, filters) ==
    LET Passes(row) == ViewerRowPasses(row, filters) IN SelectSeq(df, Passes)

\* text LIKE pattern of SQLite: '%' is any run of characters, '_' is any one
\* character, a letter matches in either case.
RECURSIVE LikeMatch(_, _)
LikeMatch(pattern, text) ==
    IF pattern = Empty THEN text = Empty
    ELSE IF Head(pattern) = "%"
    THEN LikeMatch(Tail(pattern), text)
         \/ (text # Empty /\ LikeMatch(pattern, Tail(text)))
    ELSE /\ text # Empty
         /\ (Head(pattern) = "_"
             \/ LowerChar(Head(pattern)) = LowerChar(Head(text)))
         /\ LikeMatch(Tail(pattern), Tail(text))

\* col LIKE ? with the parameter '%crit%'; NULL LIKE ? is not true.
SqlLike(value, crit) ==
    ~IsNull(value) /\ LikeMatch(<<"%">> \o crit \o <<"%">>, value)

\* The WHERE clause filter_records builds.
DbRowPasses(data, filters) ==
    /\ \A f \in DOMAIN FilterColumn :
          Truthy(filters[f]) => SqlLike(data[FilterColumn[f]], filters[f])
    /\ Truthy(filters.keywords) =>
          \A k \in 1..Len(KeywordTokens(filters.keywords)) :
              SqlLike(data.Keywords, KeywordTokens(filters.keywords)[k])

DbFilterRecords(books, filters) ==
    LET Passes(row) == DbRowPasses(row.data, filters)
        rows == SelectSeq(books, Passes)
    IN [i \in 1..Len(rows) |-> Sanitized(rows[i].data)]

(***************************************************************************)
(* State.  backend names the store the application instance works on; the  *)
(* other store stays empty.  df is self.df of the text-file backend (and   *)
(* of the viewer), file the data file it saves to, exported the file       *)
(* export_csv wrote last; books and nextId are the table.  last records    *)
(* the most recent call: its arguments, its result and the store before    *)
(* it, until the caller has handled the result.  procs holds the calls in  *)
(* progress of the processes that share one database file.                 *)
(***************************************************************************)
VARIABLES backend, df, file, exported, books, nextId, last, procs, gui

vars == <<backend, df, file, exported, books, nextId, last, procs, gui>>

Backends == {"text", "db"}
Procs == {1, 2}

NoData == BookData(Empty, Empty, Empty)
NoSource == [columns |-> ColumnSet, rows |-> << >>]

\* The record of a call made in the current state: before is the store and
\* file the data file as the call finds them.
Call(op, data, original_isbn, index, source, result, before) ==
    [op |-> op, data |-> data, original_isbn |-> original_isbn,
     index |-> index, source |-> source, result |-> result,
     before |-> before, file |-> file, imported |-> 0, skipped |-> 0]

IdleProc ==
    [pc |-> "idle", data |-> NoData, record_id |-> 0, isbn |-> Empty,
     source |-> NoSource, current_sigs |-> {}]

NoCall ==
    [Call("none", NoData, None, 0, NoSource, Ok, << >>) EXCEPT !.file = NoFile]

\* The table of a window: current_data is the list shown, current_filter
\* the dict of criteria ({} is the dict with no key), sort_column the
\* column sorted last (None before the first click); clicked tells that
\* the handler run last was sort_by_column.  No window is open while the
\* store is driven directly.
EmptyDict == [f \in DOMAIN FilterColumn \cup {"keywords"} |-> None]

\* self.sort_column = None
NoColumn == "<None>"

NoGui ==
    [current_data |-> << >>, current_filter |-> EmptyDict,
     sort_column |-> NoColumn, sort_reverse |-> FALSE, clicked |-> FALSE]

Init ==
    /\ backend \in Backends
    /\ df = << >>
    /\ file = NoFile
    /\ exported = NoFile
    /\ books = << >>
    /\ nextId = 1
    /\ last = NoCall
    /\ procs = [p \in Procs |-> IdleProc]
    /\ gui = NoGui

(***************************************************************************)
(* Text-file backend: one action per method of LibraryManager.             *)
(***************************************************************************)
TextAdd ==
    /\ backend = "text"
    /\ last = NoCall
    /\ \E data \in BookInputs :
          LET r == TextAddRecord(df, data) IN
          /\ Len(r.df) <= MaxRecords
          /\ df' = r.df
          /\ file' = IF r.result = Ok THEN SaveData(r.df) ELSE file
          /\ last' = Call("add", data, None, 0, NoSource, r.result, df)
    /\ UNCHANGED <<gui, backend, exported, books, nextId, procs>>

TextUpdate ==
    /\ backend = "text"
    /\ last = NoCall
    /\ \E data \in BookInputs, original_isbn \in OriginalIsbnInputs :
          LET r == TextUpdateRecord(df, data, original_isbn) IN
          /\ df' = r.df
          /\ file' = IF r.result = Ok THEN SaveData(r.df) ELSE file
          /\ last' = Call("update", data, original_isbn, 0, NoSource,
                          r.result, df)
    /\ UNCHANGED <<gui, backend, exported, books, nextId, procs>>

TextDelete ==
    /\ backend = "text"
    /\ last = NoCall
    /\ \E index \in IndexInputs :
          LET r == TextDeleteRecord(df, index) IN
          /\ df' = r.df
          /\ file' = IF r.result = Ok THEN SaveData(r.df) ELSE file
          /\ last' = Call("delete", NoData, None, index, NoSource,
                          r.result, df)
    /\ UNCHANGED <<gui, backend, exported, books, nextId, procs>>

TextMerge ==
    /\ backend = "text"
    /\ last = NoCall
    /\ \E source \in ImportSources :
          LET r == TextImportCsvMerge(df, source) IN
          /\ Len(r.df) <= MaxRecords
          /\ df' = r.df
          /\ file' = IF r.saved THEN SaveData(r.df) ELSE file
          /\ last' = Call("merge", NoData, None, 0, source, r.result, df)
                       @@ [returned |-> r.returned]
    /\ UNCHANGED <<gui, backend, exported, books, nextId, procs>>

TextReplace ==
    /\ backend = "text"
    /\ last = NoCall
    /\ \E source \in ImportSources :
          LET r == TextImportCsv(df, source) IN
          /\ Len(r.df) <= MaxRecords
          /\ df' = r.df
          /\ file' = IF r.result = Ok THEN SaveData(r.df) ELSE file
          /\ last' = Call("replace", NoData, None, 0, source, r.result, df)
    /\ UNCHANGED <<gui, backend, exported, books, nextId, procs>>

\* check_import_conflicts reads the source and self.df and writes nothing.
TextCheckConflicts ==
    /\ backend = "text"
    /\ last = NoCall
    /\ \E source \in ImportSources :
          LET r == TextCheckImportConflicts(df, source) IN
          last' = Call("conflicts", NoData, None, 0, source, r.result, df)
                     @@ [conflicts |-> r.conflicts]
    /\ UNCHANGED <<gui, backend, df, file, exported, books, nextId, procs>>

(***************************************************************************)
(* Relational backend, one process: every method runs to completion.       *)
(***************************************************************************)
DbAdd ==
    /\ backend = "db"
    /\ last = NoCall
    /\ \E data \in BookInputs :
          LET r == DbAddRecord(books, nextId, data) IN
          /\ Len(r.books) <= MaxRecords
          /\ r.nextId <= MaxId + 1
          /\ books' = r.books
          /\ nextId' = r.nextId
          /\ last' = Call("add", data, None, 0, NoSource, r.result, books)
    /\ UNCHANGED <<gui, backend, df, file, exported, procs>>

DbUpdate ==
    /\ backend = "db"
    /\ last = NoCall
    /\ \E data \in BookInputs, original_isbn \in OriginalIsbnInputs :
          LET r == DbUpdateRecord(books, data, original_isbn) IN
          /\ books' = r.books
          /\ last' = Call("update", data, original_isbn, 0, NoSource,
                          r.result, books)
    /\ UNCHANGED <<gui, backend, df, file, exported, nextId, procs>>

DbDelete ==
    /\ backend = "db"
    /\ last = NoCall
    /\ \E index \in IndexInputs :
          LET r == DbDeleteRecord(books, index) IN
          /\ books' = r.books
          /\ last' = Call("delete", NoData, None, index, NoSource,
                          r.result, books)
    /\ UNCHANGED <<gui, backend, df, file, exported, nextId, procs>>

DbImport ==
    /\ backend = "db"
    /\ last = NoCall
    /\ \E source \in ImportSources :
          LET r == DbImportFromTsv(books, nextId, source) IN
          /\ Len(r.books) <= MaxRecords
          /\ r.nextId <= MaxId + 1
          /\ books' = r.books
          /\ nextId' = r.nextId
          /\ last' = [Call("import", NoData, None, 0, source, r.result,
                           books)
                        EXCEPT !.imported = r.imported,
                               !.skipped = r.skipped]
                       @@ [returned |-> <<r.imported, r.skipped>>]
    /\ UNCHANGED <<gui, backend, df, file, exported, procs>>

\* The caller has shown the result (message box, refreshed table) and is
\* ready for the next call.
Return ==
    /\ last # NoCall
    /\ last' = NoCall
    /\ UNCHANGED <<gui, backend, df, file, exported, books, nextId, procs>>

Next ==
    \/ TextAdd \/ TextUpdate \/ TextDelete \/ TextMerge \/ TextReplace
    \/ TextCheckConflicts
    \/ DbAdd \/ DbUpdate \/ DbDelete \/ DbImport
    \/ Return

Spec == Init /\ [][Next]_vars

(***************************************************************************)
(* Relational backend, two processes on one database file.  A method is    *)
(* a sequence of steps, one per connection or statement that commits on    *)
(* its own (a SELECT outside a transaction, or a write with its commit);   *)
(* between two steps of a process the other process may run.  The inserts  *)
(* of import_from_tsv are one transaction and so one step.                 *)
(***************************************************************************)
ConcBookInputs ==
    {BookData(<<"X">>, <<"T">>, s) : s \in {Empty, <<" ">>, <<"A">>}}

ConcOriginalIsbn == <<"X">>

ConcIndexInputs == {0}

ConcImportSources ==
    {[columns |-> ColumnSet, rows |-> <<BookData(<<"X">>, <<"T">>, <<"A">>)>>],
     [columns |-> ColumnSet \ {"Signature"}, rows |-> << >>]}

InitConc ==
    /\ backend = "db"
    /\ df = << >>
    /\ file = NoFile
    /\ exported = NoFile
    /\ books = << >>
    /\ nextId = 1
    /\ last = NoCall
    /\ procs = [p \in Procs |-> IdleProc]
    /\ gui = NoGui

Finish(p, call) ==
    /\ procs' = [procs EXCEPT ![p] = IdleProc]
    /\ last' = call

Goto(p, state) ==
    /\ procs' = [procs EXCEPT ![p] = state]
    /\ UNCHANGED last

\* add_record up to the close of the checking connection.
ConcAddCheck(p) ==
    /\ last = NoCall
    /\ procs[p].pc = "idle"
    /\ \E data \in ConcBookInputs :
          IF DbAddCheck(books, data) # Ok
          THEN Finish(p, Call("add", data, None, 0, NoSource,
                              SignatureExists, books))
          ELSE Goto(p, [IdleProc EXCEPT !.pc = "add_insert", !.data = data])
    /\ UNCHANGED <<gui, backend, df, file, exported, books, nextId>>

\* add_record: INSERT and commit on the second connection.
ConcAddInsert(p) ==
    /\ last = NoCall
    /\ procs[p].pc = "add_insert"
    /\ LET r == SqlInsert(books, nextId, DbValues(procs[p].data)) IN
          /\ Len(r.books) <= MaxRecords
          /\ r.nextId <= MaxId + 1
          /\ books' = r.books
          /\ nextId' = r.nextId
          /\ Finish(p, Call("add", procs[p].data, None, 0, NoSource,
                            r.result, books))
    /\ UNCHANGED <<gui, backend, df, file, exported>>

\* update_record: SELECT id ... WHERE ISBN = ?
ConcUpdateFind(p) ==
    /\ last = NoCall
    /\ procs[p].pc = "idle"
    /\ \E data \in ConcBookInputs :
          LET record_id ==
                  SqlSelectId(books, DbLookupIsbn(data, ConcOriginalIsbn))
          IN
          IF record_id = 0
          THEN Finish(p, Call("update", data, ConcOriginalIsbn, 0, NoSource,
                              NotFound, books))
          ELSE Goto(p, [IdleProc EXCEPT !.pc = "update_check",
                                        !.data = data,
                                        !.record_id = record_id])
    /\ UNCHANGED <<gui, backend, df, file, exported, books, nextId>>

\* update_record: SELECT COUNT(*) ... WHERE Signature = ? AND id != ?
ConcUpdateCheck(p) ==
    /\ last = NoCall
    /\ procs[p].pc = "update_check"
    /\ IF DbUpdateCheck(books, procs[p].data, procs[p].record_id) # Ok
       THEN Finish(p, Call("update", procs[p].data, ConcOriginalIsbn, 0,
                           NoSource, SignatureExists, books))
       ELSE Goto(p, [procs[p] EXCEPT !.pc = "update_write"])
    /\ UNCHANGED <<gui, backend, df, file, exported, books, nextId>>

\* update_record: UPDATE ... WHERE id = ? and commit.
ConcUpdateWrite(p) ==
    /\ last = NoCall
    /\ procs[p].pc = "update_write"
    /\ LET r == SqlUpdate(books, DbValues(procs[p].data), procs[p].record_id)
       IN /\ books' = r.books
          /\ Finish(p, Call("update", procs[p].data, ConcOriginalIsbn, 0,
                            NoSource, r.result, books))
    /\ UNCHANGED <<gui, backend, df, file, exported, nextId>>

\* delete_record: get_all_records and the choice of the ISBN.
ConcDeleteRead(p) ==
    /\ last = NoCall
    /\ procs[p].pc = "idle"
    /\ \E index \in ConcIndexInputs :
          LET records == DbGetAllRecords(books)
              pos == PyPosition(Len(records), index)
          IN
          IF index >= Len(records)
          THEN Finish(p, Call("delete", NoData, None, index, NoSource,
                              InvalidIndex, books))
          ELSE IF pos = 0
          THEN Finish(p, Call("delete", NoData, None, index, NoSource,
                              PyIndexError, books))
          ELSE Goto(p, [IdleProc EXCEPT !.pc = "delete_write",
                                        !.isbn = records[pos].ISBN])
    /\ UNCHANGED <<gui, backend, df, file, exported, books, nextId>>

\* delete_record: DELETE ... WHERE ISBN = ? and commit.
ConcDeleteWrite(p) ==
    /\ last = NoCall
    /\ procs[p].pc = "delete_write"
    /\ books' = SqlDelete(books, procs[p].isbn)
    /\ Finish(p, Call("delete", NoData, None, 0, NoSource, Ok, books))
    /\ UNCHANGED <<gui, backend, df, file, exported, nextId>>

\* import_from_tsv up to the SELECT of the current Signatures.
ConcImportRead(p) ==
    /\ last = NoCall
    /\ procs[p].pc = "idle"
    /\ \E source \in ConcImportSources :
          IF ColumnSet \ source.columns # {}
          THEN Finish(p, Call("import", NoData, None, 0, source,
                              MissingColumns, books))
          ELSE Goto(p, [IdleProc EXCEPT
                          !.pc = "import_write",
                          !.source = source,
                          !.current_sigs = SqlSelectSignatures(books)])
    /\ UNCHANGED <<gui, backend, df, file, exported, books, nextId>>

\* import_from_tsv: the loop of INSERTs and the commit.
ConcImportWrite(p) ==
    /\ last = NoCall
    /\ procs[p].pc = "import_write"
    /\ LET r == DbImportLoop(books, nextId, procs[p].source.rows, 1,
                             procs[p].current_sigs, 0, 0)
       IN /\ Len(r.books) <= MaxRecords
          /\ r.nextId <= MaxId + 1
          /\ books' = r.books
          /\ nextId' = r.nextId
          /\ Finish(p, [Call("import", NoData, None, 0, procs[p].source,
                             r.result, books)
                          EXCEPT !.imported = r.imported,
                                 !.skipped = r.skipped])
    /\ UNCHANGED <<gui, backend, df, file, exported>>

NextConc ==
    \/ \E p \in Procs :
          \/ ConcAddCheck(p) \/ ConcAddInsert(p)
          \/ ConcUpdateFind(p) \/ ConcUpdateCheck(p) \/ ConcUpdateWrite(p)
          \/ ConcDeleteRead(p) \/ ConcDeleteWrite(p)
          \/ ConcImportRead(p) \/ ConcImportWrite(p)
    \/ Return

SpecConc == InitConc /\ [][NextConc]_vars

(***************************************************************************)
(* filter_records on a store of any content.  The store is drawn from the  *)
(* records below: df of the text-file backend holds None where add_record  *)
(* stored no Signature and NaN where the file had an empty cell, df of the *)
(* viewer holds NaN only, the table holds NULL.                            *)
(***************************************************************************)
MaxFilterRecords == 2

FilterRow(title, signature, keywords) ==
    [BookData(<<"X">>, title, signature) EXCEPT !.Keywords = keywords]

FilterRowInputs ==
    {FilterRow(<<"A", "b">>, NaN, <<"b", " ", "A">>),
     FilterRow(<<"b">>, <<"n">>, <<"a">>),
     FilterRow(<<"a">>, None, NaN),
     FilterRow(<<"B", ".">>, <<"N", "a">>, <<"a", "b">>)}

\* The dict filters; a key that is absent is None.
Criteria(isbn, title, signature, keywords) ==
    [isbn |-> isbn, title |-> title, author |-> None, publisher |-> None,
     year |-> None, signature |-> signature, keywords |-> keywords]

TitleCriteria == {Empty, <<"a", "B">>, <<"b">>, <<".">>, <<"_">>}

SignatureCriteria ==
    {Empty, <<"n", "a">>, <<"n", "a", "n">>, <<"N", "O", "N", "E">>}

KeywordsCriteria ==
    {Empty, <<"a", ",", "b">>, <<"a", ",", ",", " ", "B">>, <<"b", ",">>,
     <<",">>, <<"a", ",", ".">>, <<"a", ",", "_">>}

\* {} and the dict of seven empty entries, then the criteria in use.
FilterInputs ==
    {[f \in DOMAIN Criteria(None, None, None, None) |-> None],
     [f \in DOMAIN Criteria(None, None, None, None) |-> Empty]}
    \cup {Criteria(None, t, s, k) :
             t \in TitleCriteria, s \in SignatureCriteria,
             k \in KeywordsCriteria}

\* A row as pandas.read_csv delivers it, and as the table stores it.
NaIfNull(row) == [c \in ColumnSet |-> IF IsNull(row[c]) THEN NaN ELSE row[c]]

InitFilter ==
    /\ backend \in {"text", "viewer", "db"}
    /\ \E rows \in SeqsUpTo(FilterRowInputs, MaxFilterRecords) :
          /\ df = IF backend = "text" THEN rows
                  ELSE IF backend = "viewer"
                  THEN [i \in 1..Len(rows) |-> NaIfNull(rows[i])]
                  ELSE << >>
          /\ books = IF backend = "db"
                     THEN [i \in 1..Len(rows) |->
                              [id |-> i, data |-> NullIfNa(rows[i])]]
                     ELSE << >>
          /\ nextId = IF backend = "db" THEN Len(rows) + 1 ELSE 1
          /\ file = IF backend = "db" THEN NoFile ELSE ToCsv(df)
    /\ exported = NoFile
    /\ last = NoCall
    /\ procs = [p \in Procs |-> IdleProc]
    /\ gui = NoGui

\* The record of a filter_records call: the criteria and the list returned.
FilterCall(filters, found, before) ==
    Call("filter", NoData, None, 0, NoSource, Ok, before)
        @@ [filters |-> filters, found |-> found]

TextFilter ==
    /\ backend = "text"
    /\ last = NoCall
    /\ \E filters \in FilterInputs :
          last' = FilterCall(filters, TextFilterRecords(df, filters), df)
    /\ UNCHANGED <<gui, backend, df, file, exported, books, nextId, procs>>

ViewerFilter ==
    /\ backend = "viewer"
    /\ last = NoCall
    /\ \E filters \in FilterInputs :
          last' = FilterCall(filters, ViewerFilterRecords(df, filters), df)
    /\ UNCHANGED <<gui, backend, df, file, exported, books, nextId, procs>>

DbFilter ==
    /\ backend = "db"
    /\ last = NoCall
    /\ \E filters \in FilterInputs :
          last' = FilterCall(filters, DbFilterRecords(books, filters), books)
    /\ UNCHANGED <<gui, backend, df, file, exported, books, nextId, procs>>

NextFilter == TextFilter \/ ViewerFilter \/ DbFilter \/ Return

SpecFilter == InitFilter /\ [][NextFilter]_vars

(***************************************************************************)
(* Export, replacing import and reload of the text-file backend.  The      *)
(* manager starts with records as add_record stored them, text in every    *)
(* cell and None for an empty Signature, already saved to the data file.   *)
(* exported is the file export_csv wrote last.                             *)
(***************************************************************************)
MaxRoundTripRecords == 2

RoundTripRowInputs ==
    {BookData(<<"0", "7">>, <<"T">>, None),
     BookData(<<"7">>, <<"T">>, <<"0", "7">>),
     BookData(<<"X">>, Empty, <<"A">>),
     BookData(Empty, <<"T">>, <<"B">>)}

NothingToExport == "No records to export"

InitRoundTrip ==
    /\ backend = "text"
    /\ df \in SeqsUpTo(RoundTripRowInputs, MaxRoundTripRecords)
    /\ \A i, j \in 1..Len(df) :
          i # j => (IsNull(df[i].Signature)
                    \/ df[i].Signature # df[j].Signature)
    /\ file = SaveData(df)
    /\ exported = NoFile
    /\ books = << >>
    /\ nextId = 1
    /\ last = NoCall
    /\ procs = [p \in Procs |-> IdleProc]
    /\ gui = NoGui

\* LibraryManagerGUI.export_csv with current_data the list of all records.
GuiExportCsv ==
    /\ last = NoCall
    /\ LET current_data == TextGetAllRecords(df) IN
       IF current_data = << >>
       THEN /\ last' = Call("export", NoData, None, 0, NoSource,
                            NothingToExport, df)
            /\ UNCHANGED exported
       ELSE /\ exported' = ToCsv(current_data)
            /\ last' = Call("export", NoData, None, 0, NoSource, Ok, df)
    /\ UNCHANGED <<gui, backend, df, file, books, nextId, procs>>

\* LibraryManager.import_csv of the exported file.
ImportExported ==
    /\ last = NoCall
    /\ exported.exists
    /\ LET source == ReadCsv(exported)
           r == TextImportCsv(df, source)
       IN /\ df' = r.df
          /\ file' = IF r.result = Ok THEN SaveData(r.df) ELSE file
          /\ last' = Call("replace", NoData, None, 0, source, r.result, df)
    /\ UNCHANGED <<gui, backend, exported, books, nextId, procs>>

\* A new LibraryManager on the data file, as add_book makes one.
Reload ==
    /\ last = NoCall
    /\ df' = LoadData(file)
    /\ last' = Call("reload", NoData, None, 0, NoSource, Ok, df)
    /\ UNCHANGED <<gui, backend, file, exported, books, nextId, procs>>

NextRoundTrip == GuiExportCsv \/ ImportExported \/ Reload \/ Return

SpecRoundTrip == InitRoundTrip /\ [][NextRoundTrip]_vars

(***************************************************************************)
(* The table of the two windows: LibraryManagerGUI (src/main.py) on the    *)
(* text-file backend and BooksViewerGUI (src/books-viewer/viewer.py, on    *)
(* BookTableUI) on the viewer.  A click on a column header sorts the list  *)
(* shown with sorted(current_data, key=lambda x: str(x[col]).lower(),      *)
(* reverse=sort_reverse): the keys compare as Python compares str, code    *)
(* point by code point, and list.sort keeps the elements of equal key in   *)
(* the order they had, in both directions (for reverse=True it reverses    *)
(* the list, sorts it and reverses the result).                            *)
(***************************************************************************)
MaxTableRecords == 2

\* ord(c) for the characters of the model.
Ord ==
    (" " :> 32) @@ ("%" :> 37) @@ ("," :> 44) @@ ("." :> 46) @@ ("0" :> 48)
    @@ ("7" :> 55) @@ ("A" :> 65) @@ ("B" :> 66) @@ ("E" :> 69)
    @@ ("N" :> 78) @@ ("O" :> 79) @@ ("S" :> 83) @@ ("T" :> 84)
    @@ ("U" :> 85) @@ ("X" :> 88) @@ ("_" :> 95) @@ ("a" :> 97)
    @@ ("b" :> 98) @@ ("e" :> 101) @@ ("n" :> 110) @@ ("o" :> 111)

\* a < b on two str.
StrLess(a, b) ==
    \E k \in 1..(Len(b)) :
        /\ k <= Len(a) + 1
        /\ \A j \in 1..(k - 1) : a[j] = b[j]
        /\ k = Len(a) + 1 \/ Ord[a[k]] < Ord[b[k]]

\* str.lower()
StrLower(s) == [i \in 1..Len(s) |-> LowerChar(s[i])]

\* key=lambda x: str(x[col_index]).lower()
SortKey(row, col) == StrLower(AsStr(row[col]))

Reverse(s) == [i \in 1..Len(s) |-> s[Len(s) + 1 - i]]

\* One element more in a list in key order: behind every element whose key
\* is not greater.
Insert(list, x, col) ==
    LET behind == {i \in 1..Len(list) :
                      ~StrLess(SortKey(x, col), SortKey(list[i], col))}
        n == Cardinality(behind)
    IN SubSeq(list, 1, n) \o <<x>> \o SubSeq(list, n + 1, Len(list))

RECURSIVE SortedAscending(_, _)
SortedAscending(data, col) ==
    IF data = << >> THEN << >>
    ELSE Insert(SortedAscending(SubSeq(data, 1, Len(data) - 1), col),
                data[Len(data)], col)

\* sorted(data, key=..., reverse=reverse)
Sorted(data, col, reverse) ==
    IF reverse THEN Reverse(SortedAscending(Reverse(data), col))
    ELSE SortedAscending(data, col)

\* sort_by_column without the reset of the direction on another column.
SortByColumnKeepsDirection(g, col) ==
    LET reverse == ~g.sort_reverse IN
    [g EXCEPT !.sort_column = col, !.sort_reverse = reverse,
              !.current_data = Sorted(g.current_data, col, reverse)]

\* sort_by_column up to its self.refresh_table().
SortByColumn(g, col) ==
    LET reverse == IF g.sort_column = col THEN ~g.sort_reverse ELSE FALSE
    IN [g EXCEPT !.sort_column = col, !.sort_reverse = reverse,
                 !.current_data = Sorted(g.current_data, col, reverse)]

\* ViewerDataManager.load_data: the file read well.
ViewerLoadData(f) == IF f.exists THEN ReadCsv(f).rows ELSE << >>

AppGetAllRecords(d) ==
    IF backend = "viewer" THEN ViewerGetAllRecords(d)
    ELSE TextGetAllRecords(d)

AppFilterRecords(d, filters) ==
    IF backend = "viewer" THEN ViewerFilterRecords(d, filters)
    ELSE TextFilterRecords(d, filters)

\* refresh_table of the window: the df and the list shown it leaves.  A
\* dict is true when it has a key, whatever the values.
RefreshTable(g, d, f) ==
    IF backend = "viewer" /\ g.current_filter = EmptyDict
    THEN [df |-> ViewerLoadData(f),
          current_data |-> ViewerGetAllRecords(ViewerLoadData(f))]
    ELSE [df |-> d, current_data |-> g.current_data]

\* The records of the data file, as a program wrote them.
TableRowInputs ==
    {BookData(<<"A">>, <<"a">>, Empty),
     BookData(<<"A">>, <<"B">>, Empty),
     BookData(<<"b">>, <<"b">>, Empty)}

TableFiles == {ToCsv(rows) : rows \in SeqsUpTo(TableRowInputs, MaxTableRecords)}

SortColumns == {"ISBN", "Title"}

\* The dict apply_filter builds from the seven entries, each stripped.
TableFilterInputs ==
    {[Criteria(Empty, t, Empty, Empty) EXCEPT
         !.author = Empty, !.publisher = Empty, !.year = Empty] :
        t \in {Empty, <<"a">>, <<"b">>}}

InitTable ==
    /\ backend \in {"text", "viewer"}
    /\ file \in TableFiles
    /\ df = IF backend = "viewer" THEN ViewerLoadData(file) ELSE LoadData(file)
    /\ exported = NoFile
    /\ books = << >>
    /\ nextId = 1
    /\ last = NoCall
    /\ procs = [p \in Procs |-> IdleProc]
    /\ gui = [NoGui EXCEPT !.current_data = AppGetAllRecords(df)]

\* The record of a handler of the window: the table as the handler found
\* it, the column clicked and the rows selected.
TableCall(op, col, selection, result) ==
    Call(op, NoData, None, 0, NoSource, result, df)
        @@ [col |-> col, selection |-> selection, gui |-> gui]

\* A click on the header of a column.
ClickHeader ==
    /\ last = NoCall
    /\ \E col \in SortColumns :
          LET g == SortByColumn(gui, col)
              r == RefreshTable(g, df, file)
          IN /\ gui' = [g EXCEPT !.current_data = r.current_data,
                                  !.clicked = TRUE]
             /\ df' = r.df
             /\ last' = TableCall("sort", col, {}, Ok)
    /\ UNCHANGED <<backend, file, exported, books, nextId, procs>>

\* Apply Filter.
ApplyFilter ==
    /\ last = NoCall
    /\ \E filters \in TableFilterInputs :
          LET g == [gui EXCEPT
                       !.current_filter = filters,
                       !.current_data = AppFilterRecords(df, filters)]
              r == RefreshTable(g, df, file)
          IN /\ gui' = [g EXCEPT !.current_data = r.current_data,
                                  !.clicked = FALSE]
             /\ df' = r.df
             /\ last' = TableCall("apply_filter", NoColumn, {}, Ok)
    /\ UNCHANGED <<backend, file, exported, books, nextId, procs>>

\* Clear Filter.
ClearFilter ==
    /\ last = NoCall
    /\ LET g == [gui EXCEPT !.current_filter = EmptyDict,
                            !.current_data = AppGetAllRecords(df)]
           r == RefreshTable(g, df, file)
       IN /\ gui' = [g EXCEPT !.current_data = r.current_data,
                               !.clicked = FALSE]
          /\ df' = r.df
          /\ last' = TableCall("clear_filter", NoColumn, {}, Ok)
    /\ UNCHANGED <<backend, file, exported, books, nextId, procs>>

\* The Reload button: refresh_table.
ReloadButton ==
    /\ last = NoCall
    /\ LET r == RefreshTable(gui, df, file) IN
          /\ gui' = [gui EXCEPT !.current_data = r.current_data,
                                 !.clicked = FALSE]
          /\ df' = r.df
          /\ last' = TableCall("refresh", NoColumn, {}, Ok)
    /\ UNCHANGED <<backend, file, exported, books, nextId, procs>>

\* The program that maintains books.tsv writes it anew while the viewer
\* is open.
FileChanged ==
    /\ backend = "viewer"
    /\ last = NoCall
    /\ file' \in TableFiles \ {file}
    /\ UNCHANGED <<gui, backend, df, exported, books, nextId, last, procs>>

\* sorted(indices_to_delete, reverse=True)
RECURSIVE SortedReverse(_)
SortedReverse(s) ==
    IF s = << >> THEN << >>
    ELSE LET m == CHOOSE x \in {s[i] : i \in 1..Len(s)} :
                     \A i \in 1..Len(s) : s[i] <= x
             k == Min({i \in 1..Len(s) : s[i] = m})
         IN <<m>> \o SortedReverse(RemoveAt(s, k))

\* The ISBN column of the rows selected, in the order of the table.
RECURSIVE BooksToDelete(_, _, _)
BooksToDelete(current_data, selection, k) ==
    IF k > Len(current_data) THEN << >>
    ELSE (IF k \in selection THEN <<current_data[k].ISBN>> ELSE << >>)
         \o BooksToDelete(current_data, selection, k + 1)

\* The position searched for every ISBN to delete: the first record of df
\* whose ISBN, as stripped text, is that ISBN; nothing for an ISBN no
\* record has.  Positions count from 0.
RECURSIVE IndicesToDelete(_, _)
IndicesToDelete(d, isbns) ==
    IF isbns = << >> THEN << >>
    ELSE LET match == {i \in 1..Len(d) :
                          Strip(AsStr(d[i].ISBN)) = Strip(AsStr(Head(isbns)))}
         IN (IF match = {} THEN << >> ELSE <<Min(match) - 1>>)
            \o IndicesToDelete(d, Tail(isbns))

\* for i in ...: self.manager.delete_record(i), up to the first exception.
RECURSIVE DeleteLoop(_, _, _)
DeleteLoop(d, f, indices) ==
    IF indices = << >> THEN [result |-> Ok, df |-> d, file |-> f]
    ELSE LET r == TextDeleteRecord(d, Head(indices)) IN
         IF r.result = Ok
         THEN DeleteLoop(r.df, SaveData(r.df), Tail(indices))
         ELSE [result |-> r.result, df |-> r.df, file |-> f]

\* delete_book with rows selected and the question answered with yes.
GuiDeleteBook ==
    /\ backend = "text"
    /\ last = NoCall
    /\ \E selection \in (SUBSET (1..Len(gui.current_data))) \ {{}} :
          LET isbns == BooksToDelete(gui.current_data, selection, 1)
              indices == SortedReverse(IndicesToDelete(df, isbns))
              r == DeleteLoop(df, file, indices)
              d == LoadData(r.file)
          IN /\ file' = r.file
             /\ df' = IF r.result = Ok THEN d ELSE r.df
             /\ gui' = IF r.result # Ok THEN [gui EXCEPT !.clicked = FALSE]
                       ELSE [gui EXCEPT
                                !.clicked = FALSE,
                                !.current_data =
                                   IF gui.current_filter # EmptyDict
                                   THEN TextFilterRecords(d,
                                                          gui.current_filter)
                                   ELSE TextGetAllRecords(d)]
             /\ last' = TableCall("delete_book", NoColumn, selection,
                                  r.result)
    /\ UNCHANGED <<backend, exported, books, nextId, procs>>

NextTable ==
    \/ ClickHeader \/ ApplyFilter \/ ClearFilter \/ ReloadButton
    \/ FileChanged \/ GuiDeleteBook \/ Return

SpecTable == InitTable /\ [][NextTable]_vars

(***************************************************************************)
(* The text-file backend on a disk that can fail.  save_data is the last   *)
(* statement of every method that changes self.df, and to_csv raises       *)
(* OSError when the file cannot be written (no permission, disk full); the *)
(* imports wrap the exception in their own.  load_data returns the empty   *)
(* DataFrame when read_csv raises on an existing file (no permission, no   *)
(* header, broken encoding).  Whether a write or a read succeeds is the    *)
(* choice of the environment.                                              *)
(***************************************************************************)
MaxDiskRecords == 2

WriteError == "OSError"

\* load_data, the file read well or not.
LoadDataRead(f, read_ok) ==
    IF f.exists /\ read_ok THEN ReadCsv(f).rows ELSE << >>

\* The end of a method of LibraryManager: r is its outcome up to
\* self.save_data(), d and f are self.df and the file as the method found
\* them, saves tells whether the method calls save_data.  self.df is
\* assigned before save_data runs.
Saved(r, d, f, saves, write_ok) ==
    IF r.result # Ok \/ ~saves
    THEN [result |-> r.result, df |-> r.df, file |-> f]
    ELSE IF write_ok
    THEN [result |-> Ok, df |-> r.df, file |-> SaveData(r.df)]
    ELSE [result |-> WriteError, df |-> r.df, file |-> f]

DiskBookInputs ==
    {BookData(isbn, <<"T">>, signature) :
        isbn \in {<<"0", "7">>, <<"X">>}, signature \in {Empty, <<"A">>}}

DiskIndexInputs == {0, MaxDiskRecords + 1}

DiskImportSources ==
    {source \in ImportSources : Len(source.rows) <= 1}

InitDisk ==
    /\ backend \in {"text", "viewer"}
    /\ file \in IF backend = "viewer" THEN TableFiles ELSE {NoFile}
    /\ df = IF backend = "viewer" THEN ViewerLoadData(file) ELSE LoadData(file)
    /\ exported = NoFile
    /\ books = << >>
    /\ nextId = 1
    /\ last = NoCall
    /\ procs = [p \in Procs |-> IdleProc]
    /\ gui = NoGui

\* The record of a call on the disk: whether the write and the read were
\* to succeed.
DiskCall(op, data, source, result, write_ok, read_ok) ==
    Call(op, data, None, 0, source, result, df)
        @@ [write_ok |-> write_ok, read_ok |-> read_ok]

DiskAdd ==
    /\ backend = "text"
    /\ last = NoCall
    /\ \E data \in DiskBookInputs, write_ok \in BOOLEAN :
          LET m == TextAddRecord(df, data)
              r == Saved(m, df, file, TRUE, write_ok)
          IN /\ Len(r.df) <= MaxDiskRecords
             /\ df' = r.df
             /\ file' = r.file
             /\ last' = DiskCall("add", data, NoSource, r.result,
                                 write_ok, TRUE)
    /\ UNCHANGED <<gui, backend, exported, books, nextId, procs>>

DiskUpdate ==
    /\ backend = "text"
    /\ last = NoCall
    /\ \E data \in DiskBookInputs, write_ok \in BOOLEAN :
          LET m == TextUpdateRecord(df, data, <<"X">>)
              r == Saved(m, df, file, TRUE, write_ok)
          IN /\ df' = r.df
             /\ file' = r.file
             /\ last' = [DiskCall("update", data, NoSource, r.result,
                                  write_ok, TRUE)
                            EXCEPT !.original_isbn = <<"X">>]
    /\ UNCHANGED <<gui, backend, exported, books, nextId, procs>>

DiskDelete ==
    /\ backend = "text"
    /\ last = NoCall
    /\ \E index \in DiskIndexInputs, write_ok \in BOOLEAN :
          LET m == TextDeleteRecord(df, index)
              r == Saved(m, df, file, TRUE, write_ok)
          IN /\ df' = r.df
             /\ file' = r.file
             /\ last' = [DiskCall("delete", NoData, NoSource, r.result,
                                  write_ok, TRUE)
                            EXCEPT !.index = index]
    /\ UNCHANGED <<gui, backend, exported, books, nextId, procs>>

DiskMerge ==
    /\ backend = "text"
    /\ last = NoCall
    /\ \E source \in DiskImportSources, write_ok \in BOOLEAN :
          LET m == TextImportCsvMerge(df, source)
              r == Saved(m, df, file, m.saved, write_ok)
          IN /\ Len(r.df) <= MaxDiskRecords
             /\ df' = r.df
             /\ file' = r.file
             /\ last' = DiskCall("merge", NoData, source, r.result,
                                 write_ok, TRUE)
    /\ UNCHANGED <<gui, backend, exported, books, nextId, procs>>

DiskReplace ==
    /\ backend = "text"
    /\ last = NoCall
    /\ \E source \in DiskImportSources, write_ok \in BOOLEAN :
          LET m == TextImportCsv(df, source)
              r == Saved(m, df, file, TRUE, write_ok)
          IN /\ df' = r.df
             /\ file' = r.file
             /\ last' = DiskCall("replace", NoData, source, r.result,
                                 write_ok, TRUE)
    /\ UNCHANGED <<gui, backend, exported, books, nextId, procs>>

\* A new LibraryManager or ViewerDataManager on the data file (and
\* ViewerDataManager.reload): load_data returns without an exception
\* whatever read_csv did.
DiskOpen ==
    /\ last = NoCall
    /\ \E read_ok \in BOOLEAN :
          /\ df' = LoadDataRead(file, read_ok)
          /\ last' = DiskCall("open", NoData, NoSource, Ok, TRUE, read_ok)
    /\ UNCHANGED <<gui, backend, file, exported, books, nextId, procs>>

NextDisk ==
    \/ DiskAdd \/ DiskUpdate \/ DiskDelete \/ DiskMerge \/ DiskReplace
    \/ DiskOpen \/ Return

SpecDisk == InitDisk /\ [][NextDisk]_vars

(***************************************************************************)
(* What the callers see, and the vocabulary of the properties.             *)
(***************************************************************************)
\* The store, and get_all_records() on it, now and before the last call.
Store == IF backend = "text" THEN df ELSE books

Records ==
    IF backend = "text" THEN TextGetAllRecords(df) ELSE DbGetAllRecords(books)

RecordsBefore ==
    IF backend = "text"
    THEN TextGetAllRecords(last.before)
    ELSE DbGetAllRecords(last.before)

\* The stored rows before the last call, without the id of the table.
RowsBefore ==
    IF backend = "text"
    THEN last.before
    ELSE [i \in 1..Len(last.before) |-> last.before[i].data]

\* A Signature that is present: neither missing nor the empty text.
NonEmpty(v) == ~IsNull(v) /\ v # Empty

\* Two cells hold the same text, a missing cell counting as empty.
SameText(a, b) ==
    (IF IsNull(a) THEN Empty ELSE a) = (IF IsNull(b) THEN Empty ELSE b)

SameBook(r, d) == \A c \in ColumnSet : SameText(r[c], d[c])

IsErrorOfIndex(result) == result \in {PyIndexError, InvalidIndex}

\* The lookup key of the last update_record call as the method computes it.
LastLookup ==
    IF Truthy(last.original_isbn) THEN last.original_isbn ELSE last.data.ISBN

\* A stored ISBN matches a lookup key the way the backend compares them:
\* trimmed text in the text-file backend, SQL equality in the relational one.
BackendMatches(isbn, lookup) ==
    IF backend = "text"
    THEN Strip(AsStr(isbn)) = Strip(AsStr(lookup))
    ELSE isbn = lookup

(***************************************************************************)
(* C1.  Text-file backend: no two records share the same non-empty         *)
(* Signature, in every state reached by add, update, delete, merging       *)
(* import and replacing import.  The imports break it: a source with the   *)
(* same Signature on two rows is taken as it is.                           *)
(***************************************************************************)
C1_TextSignatureUnique ==
    backend = "text" =>
        \A i, j \in 1..Len(df) :
            (i # j /\ NonEmpty(df[i].Signature))
                => df[i].Signature # df[j].Signature

(***************************************************************************)
(* C2.  Relational backend: no two rows of books share the same non-empty  *)
(* Signature, in every state reached by the steps of add, update, delete   *)
(* and import of two processes, interleaved in any order.                  *)
(***************************************************************************)
C2_DbSignatureUnique ==
    \A i, j \in 1..Len(books) :
        (i # j /\ NonEmpty(books[i].data.Signature))
            => books[i].data.Signature # books[j].data.Signature

\* A process passed the duplicate check of add_record, the other process
\* stored the same Signature meanwhile, and the INSERT was refused.
C2_Witness ==
    /\ last.op = "add"
    /\ last.result = IntegrityError
    /\ last.data.Signature = <<"A">>
    /\ \E i \in 1..Len(books) : books[i].data.Signature = <<"A">>

(***************************************************************************)
(* C3.  add_record of a record whose non-empty Signature is already the    *)
(* Signature of a stored record fails with the duplicate-signature error   *)
(* and leaves the store unchanged, in both backends.                       *)
(***************************************************************************)
C3_DuplicateAddRejected ==
    (/\ last.op = "add"
     /\ NonEmpty(last.data.Signature)
     /\ \E i \in 1..Len(RecordsBefore) :
           RecordsBefore[i].Signature = last.data.Signature)
    => (last.result = SignatureExists /\ Store = last.before)

(***************************************************************************)
(* C4.  add_record succeeds exactly when the new Signature is empty or is  *)
(* not exactly equal to the Signature of a stored record; on success one   *)
(* record, the new one, is appended as the last element of                 *)
(* get_all_records and the earlier records keep values and order.          *)
(***************************************************************************)
C4_AddSucceedsExactlyWhen ==
    last.op = "add" =>
        LET taken ==
                /\ NonEmpty(last.data.Signature)
                /\ \E i \in 1..Len(RecordsBefore) :
                      RecordsBefore[i].Signature = last.data.Signature
        IN
        /\ (last.result = Ok) <=> ~taken
        /\ last.result = Ok =>
              /\ Len(Records) = Len(RecordsBefore) + 1
              /\ SubSeq(Records, 1, Len(RecordsBefore)) = RecordsBefore
              /\ SameBook(Records[Len(Records)], last.data)
        /\ last.result # Ok => Records = RecordsBefore

\* An accepted add whose Signature differs from a stored one only in case
\* or is a part of it, and whose ISBN is the ISBN of a stored record.
C4_Witness ==
    /\ last.op = "add"
    /\ last.result = Ok
    /\ last.data.Signature = <<"A">>
    /\ \E i \in 1..Len(RecordsBefore) :
          RecordsBefore[i].Signature \in {<<"a">>, <<" ", "A">>}
    /\ \E i \in 1..Len(RecordsBefore) :
          RecordsBefore[i].ISBN = last.data.ISBN

(***************************************************************************)
(* C5.  For a store with exactly one record of ISBN k, after a successful  *)
(* update_record with lookup ISBN k and data d, get_all_records has the    *)
(* same length, holds d (all eight fields) in the place of that record,    *)
(* and no record with the stale values.  Stated in favour of the code: an  *)
(* ISBN is compared trimmed, and a missing cell counts as an empty one.    *)
(***************************************************************************)
C5_UpdateReplacesTheRecord ==
    LET k == last.original_isbn
        at == {i \in 1..Len(RecordsBefore) :
                  /\ ~IsNull(RecordsBefore[i].ISBN)
                  /\ Strip(RecordsBefore[i].ISBN) = Strip(k)}
    IN
    (last.op = "update" /\ last.result = Ok /\ Cardinality(at) = 1)
    => /\ Len(Records) = Len(RecordsBefore)
       /\ \A i \in at :
             /\ SameBook(Records[i], last.data)
             /\ ~SameBook(RecordsBefore[i], last.data)
                   => \A j \in 1..Len(Records) :
                         ~SameBook(Records[j], RecordsBefore[i])

(***************************************************************************)
(* C6.  update_record fails with the record-not-found error exactly when   *)
(* no stored ISBN equals the lookup ISBN, both compared as trimmed text,   *)
(* and then the store is unchanged; in both backends.                      *)
(***************************************************************************)
C6_NotFoundExactlyWhen ==
    last.op = "update" =>
        LET found ==
                \E i \in 1..Len(RecordsBefore) :
                    /\ ~IsNull(RecordsBefore[i].ISBN)
                    /\ Strip(RecordsBefore[i].ISBN) = Strip(LastLookup)
        IN
        /\ (last.result = NotFound) <=> ~found
        /\ last.result = NotFound => Store = last.before

(***************************************************************************)
(* C7.  update_record, once the record is found, fails with the            *)
(* duplicate-signature error exactly when the new Signature is non-empty   *)
(* and equals the Signature of another record; a rejected update leaves    *)
(* the store unchanged.                                                    *)
(***************************************************************************)
C7_UpdateDuplicateExactlyWhen ==
    (last.op = "update" /\ last.result # NotFound) =>
        LET hits == {i \in 1..Len(RowsBefore) :
                        BackendMatches(RowsBefore[i].ISBN, LastLookup)}
            target == Min(hits)
            taken ==
                /\ NonEmpty(last.data.Signature)
                /\ \E j \in 1..Len(RecordsBefore) :
                      /\ j # target
                      /\ RecordsBefore[j].Signature = last.data.Signature
        IN
        /\ (last.result = SignatureExists) <=> taken
        /\ last.result # Ok => Store = last.before

(***************************************************************************)
(* C8.  update_record called with the pre-edit ISBN as original_isbn and   *)
(* another ISBN in the data locates the record by the pre-edit ISBN only,  *)
(* whatever the pre-edit ISBN is, the empty text included: it finds a      *)
(* record that has the pre-edit ISBN, and changes no record that has not.  *)
(***************************************************************************)
C8_LookupByPreEditIsbn ==
    (last.op = "update" /\ last.original_isbn # last.data.ISBN) =>
        /\ (\E i \in 1..Len(RecordsBefore) :
               RecordsBefore[i].ISBN = last.original_isbn)
              => last.result # NotFound
        /\ \A i \in 1..Len(RecordsBefore) :
              (Len(Records) = Len(RecordsBefore)
               /\ Records[i] # RecordsBefore[i])
              => Strip(AsStr(RecordsBefore[i].ISBN))
                    = Strip(AsStr(last.original_isbn))

(***************************************************************************)
(* C9.  When several records have the lookup ISBN, a successful            *)
(* update_record changes only the first of them in backend order; every    *)
(* other record, the number of records and their order stay.               *)
(***************************************************************************)
C9_UpdateChangesFirstMatchOnly ==
    (last.op = "update" /\ last.result = Ok) =>
        LET hits == {i \in 1..Len(RowsBefore) :
                        BackendMatches(RowsBefore[i].ISBN, LastLookup)}
        IN
        /\ hits # {}
        /\ Len(Records) = Len(RecordsBefore)
        /\ SameBook(Records[Min(hits)], last.data)
        /\ \A i \in 1..Len(Records) :
              i # Min(hits) => Records[i] = RecordsBefore[i]
        /\ backend = "db" =>
              \A i \in 1..Len(books) : books[i].id = last.before[i].id

\* A successful update of a store in which two records have the lookup
\* ISBN, with data that differ from the first of them.
C9_Witness ==
    /\ last.op = "update"
    /\ last.result = Ok
    /\ Cardinality({i \in 1..Len(RowsBefore) :
                       BackendMatches(RowsBefore[i].ISBN, LastLookup)}) > 1
    /\ ~SameBook(RowsBefore[1], last.data)
    /\ BackendMatches(RowsBefore[1].ISBN, LastLookup)

(***************************************************************************)
(* C10. delete_record with a position that is no position of the record    *)
(* list (negative, or at least the number of records) fails with the       *)
(* invalid-index error and leaves every record, in both backends.          *)
(***************************************************************************)
C10_DeleteOutOfRangeRejected ==
    (last.op = "delete"
     /\ (last.index < 0 \/ last.index >= Len(RecordsBefore)))
    => (IsErrorOfIndex(last.result) /\ Store = last.before)

(***************************************************************************)
(* C11. delete_record with a valid position p succeeds and removes exactly *)
(* the record get_all_records shows at p: one record less, every other     *)
(* record stays with its values and in its order, also when other records  *)
(* have the ISBN of the deleted one.                                       *)
(***************************************************************************)
C11_DeleteRemovesExactlyOne ==
    (last.op = "delete"
     /\ 0 <= last.index /\ last.index < Len(RecordsBefore))
    => /\ last.result = Ok
       /\ Records = RemoveAt(RecordsBefore, last.index + 1)

(***************************************************************************)
(* Vocabulary of the properties of filter_records.                         *)
(***************************************************************************)
\* The stored rows, and get_all_records() on them, in any of the backends.
Rows ==
    IF backend = "db" THEN [i \in 1..Len(books) |-> books[i].data] ELSE df

Shown ==
    IF backend = "db" THEN DbGetAllRecords(books)
    ELSE IF backend = "viewer" THEN ViewerGetAllRecords(df)
    ELSE TextGetAllRecords(df)

Lower(s) == [i \in 1..Len(s) |-> LowerChar(s[i])]

\* a occurs in b, character by character.
IsSubstring(a, b) ==
    \E start \in 0..(Len(b) - Len(a)) :
        SubSeq(b, start + 1, start + Len(a)) = a

\* The text crit occurs in the cell, whatever the case of the letters.
ContainsText(cell, crit) ==
    ~IsNull(cell) /\ IsSubstring(Lower(crit), Lower(cell))

RECURSIVE IsSubsequence(_, _)
IsSubsequence(a, b) ==
    IF a = << >> THEN TRUE
    ELSE IF b = << >> THEN FALSE
    ELSE IF Head(a) = Head(b) THEN IsSubsequence(Tail(a), Tail(b))
    ELSE IsSubsequence(a, Tail(b))

\* The single-value criteria in force in the last filter_records call.
ActiveCriteria == {f \in DOMAIN FilterColumn : Truthy(last.filters[f])}

\* The tokens of the keywords criterion of the last call: the parts between
\* commas, trimmed, the empty ones left out.
LastTokens ==
    IF Truthy(last.filters.keywords)
    THEN LET parts == Split(last.filters.keywords) IN
         {Strip(parts[i]) : i \in 1..Len(parts)} \ {Empty}
    ELSE {}

(***************************************************************************)
(* C12. With single-value criteria only, filter_records returns exactly    *)
(* the records in which every non-empty criterion occurs as a literal,     *)
(* case-insensitive substring of its field: no character of a criterion is *)
(* a wildcard, empty and absent criteria do not constrain, the active ones *)
(* combine with AND.  Stated for stores in which no compared field is      *)
(* missing.                                                                *)
(***************************************************************************)
C12_CriteriaAreLiteralSubstrings ==
    (/\ last.op = "filter"
     /\ LastTokens = {}
     /\ \A i \in 1..Len(Rows) : \A f \in ActiveCriteria :
           ~IsNull(Rows[i][FilterColumn[f]]))
    => LET Expected(r) ==
               \A f \in ActiveCriteria :
                   ContainsText(r[FilterColumn[f]], last.filters[f])
       IN last.found = SelectSeq(Shown, Expected)

(***************************************************************************)
(* C13. With a keywords criterion only, filter_records returns exactly the *)
(* records whose Keywords contain every non-empty trimmed token of the     *)
(* criterion as a case-insensitive substring; empty tokens are ignored.    *)
(***************************************************************************)
C13_KeywordTokensAllContained ==
    (last.op = "filter" /\ ActiveCriteria = {} /\ LastTokens # {})
    => \A i \in 1..Len(Rows) :
          (\E k \in 1..Len(last.found) : last.found[k] = Shown[i])
          <=> \A kw \in LastTokens : ContainsText(Rows[i].Keywords, kw)

(***************************************************************************)
(* C14. A record whose compared field is missing in the store is not       *)
(* returned by filter_records for any non-empty criterion on that field,   *)
(* whatever the text of the criterion, in the text-file backend, the       *)
(* viewer and the relational backend.                                      *)
(***************************************************************************)
C14_MissingFieldNeverMatches ==
    last.op = "filter" =>
        \A i \in 1..Len(Rows) :
            (\/ \E f \in ActiveCriteria : IsNull(Rows[i][FilterColumn[f]])
             \/ LastTokens # {} /\ IsNull(Rows[i].Keywords))
            => \A k \in 1..Len(last.found) : last.found[k] # Shown[i]

(***************************************************************************)
(* C15. The list filter_records returns is a subsequence of                *)
(* get_all_records, in the same order; the call leaves the store as it     *)
(* was; and with no active criterion (no key, or every criterion the       *)
(* empty text) the list is get_all_records.                                *)
(***************************************************************************)
C15_FilterIsOrderedSelection ==
    last.op = "filter" =>
        /\ IsSubsequence(last.found, Shown)
        /\ (IF backend = "db" THEN books ELSE df) = last.before
        /\ (\A f \in DOMAIN last.filters : ~Truthy(last.filters[f]))
              => last.found = Shown

\* A call with a criterion in force on a store of two different records
\* that returned the second record only.
C15_Witness ==
    /\ last.op = "filter"
    /\ ActiveCriteria # {}
    /\ Len(Shown) = 2
    /\ Shown[1] # Shown[2]
    /\ last.found = <<Shown[2]>>

(***************************************************************************)
(* C16. A merging import that succeeds returns the pair (imported_count,   *)
(* skipped_count): skipped_count is the number of source records whose     *)
(* non-empty Signature is the Signature of a stored record, imported_count *)
(* the number of the other source records, and the store gains exactly     *)
(* imported_count records.                                                 *)
(***************************************************************************)
C16_MergeReturnsCounts ==
    (last.op \in {"merge", "import"} /\ last.result = Ok) =>
        LET rows == last.source.rows
            present ==
                {k \in 1..Len(rows) :
                    /\ NonEmpty(rows[k].Signature)
                    /\ \E i \in 1..Len(RowsBefore) :
                          RowsBefore[i].Signature = rows[k].Signature}
            skipped_count == Cardinality(present)
            imported_count == Len(rows) - skipped_count
        IN
        /\ last.returned = <<imported_count, skipped_count>>
        /\ Len(Records) = Len(RecordsBefore) + imported_count

\* The operations that read an import source.
ImportOps == {"merge", "replace", "conflicts", "import"}

(***************************************************************************)
(* C17. An import (merging, replacing, or the conflict check) of a source  *)
(* that lacks one of the eight columns fails with the missing-columns      *)
(* error, and the call leaves the records in memory, the data file and     *)
(* the table as they were: no row of the source has been taken.            *)
(***************************************************************************)
C17_SchemaErrorLeavesStore ==
    (last.op \in ImportOps /\ ColumnSet \ last.source.columns # {})
    => /\ last.result = MissingColumns
       /\ Store = last.before
       /\ file = last.file

\* A failed import of a source that lacks a column and has a row, into a
\* store that holds a record.
C17_Witness ==
    /\ last.op \in ImportOps
    /\ last.result = MissingColumns
    /\ Len(last.source.rows) > 0
    /\ Len(Store) > 0
    /\ Store = last.before

(***************************************************************************)
(* C18, as the specification states it.  check_import_conflicts on a       *)
(* source with the eight columns returns exactly the non-empty Signature   *)
(* values that occur both in the store and in the source, and changes      *)
(* neither the records in memory nor the data file.                        *)
(***************************************************************************)
C18_ConflictsAreCommonSignatures ==
    (last.op = "conflicts" /\ last.result = Ok)
    => /\ last.conflicts =
             {v \in {df[i].Signature : i \in 1..Len(df)} :
                 /\ NonEmpty(v)
                 /\ \E k \in 1..Len(last.source.rows) :
                       last.source.rows[k].Signature = v}
       /\ df = last.before
       /\ file = last.file

(***************************************************************************)
(* C18, amended.  check_import_conflicts on a source with the eight        *)
(* columns returns exactly the texts that are the trimmed Signature of a   *)
(* record of the store and the trimmed Signature of a record of the        *)
(* source, missing Signatures left out; a Signature ' A' of the source     *)
(* and a Signature 'A' of the store give the conflict 'A'.  The call       *)
(* changes neither the records in memory nor the data file.                *)
(***************************************************************************)
C18_ConflictsAreCommonTrimmedSignatures ==
    (last.op = "conflicts" /\ last.result = Ok)
    => LET rows == last.source.rows IN
       /\ \A i \in 1..Len(df) : \A k \in 1..Len(rows) :
             (/\ ~IsNull(df[i].Signature)
              /\ ~IsNull(rows[k].Signature)
              /\ Strip(df[i].Signature) = Strip(rows[k].Signature))
             => Strip(df[i].Signature) \in last.conflicts
       /\ \A v \in last.conflicts :
             /\ \E i \in 1..Len(df) :
                   ~IsNull(df[i].Signature) /\ Strip(df[i].Signature) = v
             /\ \E k \in 1..Len(rows) :
                   ~IsNull(rows[k].Signature) /\ Strip(rows[k].Signature) = v
       /\ df = last.before
       /\ file = last.file

\* A conflict check that reports 'A' for a store holding the Signature 'A'
\* and a source holding ' A', next to a source Signature that is new.
C18_Witness ==
    /\ last.op = "conflicts"
    /\ last.result = Ok
    /\ last.conflicts = {<<"A">>}
    /\ \E i \in 1..Len(df) : df[i].Signature = <<"A">>
    /\ \E k \in 1..Len(last.source.rows) :
          last.source.rows[k].Signature = <<" ", "A">>
    /\ \E k \in 1..Len(last.source.rows) :
          last.source.rows[k].Signature = <<"a">>

TextOf(v) == IF IsNull(v) THEN Empty ELSE AsStr(v)

(***************************************************************************)
(* C20. Round trip: after export_csv of the records and import_csv of the  *)
(* exported file, and after a reload from the data file that was written   *)
(* from the records, there are as many records, in the same order, and     *)
(* every field has the same text as before: empty texts, ISBNs of digits   *)
(* and values with leading zeros included.  Stated in favour of the code:  *)
(* a missing cell counts as the empty text.                                *)
(***************************************************************************)
C20_RoundTripKeepsEveryField ==
    (\/ last.op = "replace" /\ last.result = Ok
                            /\ exported = ToCsv(RecordsBefore)
     \/ last.op = "reload" /\ file = ToCsv(RecordsBefore))
    => /\ Len(Records) = Len(RecordsBefore)
       /\ \A i \in 1..Len(RecordsBefore) : \A c \in ColumnSet :
             TextOf(Records[i][c]) = TextOf(RecordsBefore[i][c])

(***************************************************************************)
(* Vocabulary of the properties of the table.                              *)
(***************************************************************************)
TableOps == {"sort", "apply_filter", "clear_filter", "refresh", "delete_book"}

\* The list the window showed when the last handler started.
ShownBefore == last.gui.current_data

\* The lower-cased string form of a field.
KeyOf(r, col) == Lower(AsStr(r[col]))

Occurrences(list, r) == Cardinality({i \in 1..Len(list) : list[i] = r})

IsPermutation(a, b) ==
    /\ Len(a) = Len(b)
    /\ \A i \in 1..Len(a) : Occurrences(a, a[i]) = Occurrences(b, a[i])

\* Non-decreasing keys when ascending, non-increasing when descending.
OrderedBy(list, col, reverse) ==
    \A i, j \in 1..Len(list) :
        i < j => IF reverse
                 THEN ~StrLess(KeyOf(list[i], col), KeyOf(list[j], col))
                 ELSE ~StrLess(KeyOf(list[j], col), KeyOf(list[i], col))

\* The records of one key come in the same order in both lists.
TiesKeepOrder(before, after, col) ==
    \A k \in {KeyOf(before[i], col) : i \in 1..Len(before)} :
        LET HasKey(r) == KeyOf(r, col) = k IN
        SelectSeq(after, HasKey) = SelectSeq(before, HasKey)

(***************************************************************************)
(* C21. Two clicks in a row on the header of one column: after the second  *)
(* the window shows exactly the reverse of the list it showed after the    *)
(* first, also when records have equal sort keys.                          *)
(***************************************************************************)
C21_SecondClickReverses ==
    (/\ last.op = "sort"
     /\ last.gui.clicked
     /\ last.gui.sort_column = last.col)
    => gui.current_data = Reverse(ShownBefore)

(***************************************************************************)
(* C22. sort_by_column leaves a permutation of the list shown, ordered by  *)
(* the lower-cased string form of the column (non-decreasing when          *)
(* ascending, non-increasing when descending), the records of equal key    *)
(* in the order they had; the store stays as it was.                       *)
(***************************************************************************)
C22_SortIsStablePermutation ==
    last.op = "sort"
    => /\ IsPermutation(gui.current_data, ShownBefore)
       /\ OrderedBy(gui.current_data, last.col, gui.sort_reverse)
       /\ TiesKeepOrder(ShownBefore, gui.current_data, last.col)
       /\ file = last.file
       /\ backend = "text" => df = last.before

(***************************************************************************)
(* C23. A click on the column sorted last flips the direction; a click on  *)
(* another column, the first click included, sets the direction to         *)
(* ascending whatever it was; no other handler of the window changes the   *)
(* column or the direction.                                                *)
(***************************************************************************)
C23_DirectionState ==
    /\ last.op = "sort"
       => /\ gui.sort_column = last.col
          /\ gui.sort_reverse = (/\ last.gui.sort_column = last.col
                                 /\ ~last.gui.sort_reverse)
    /\ last.op \in TableOps \ {"sort"}
       => /\ gui.sort_column = last.gui.sort_column
          /\ gui.sort_reverse = last.gui.sort_reverse

\* A click on another column while the direction was descending.
C23_Witness ==
    /\ last.op = "sort"
    /\ last.gui.sort_reverse
    /\ last.gui.sort_column \notin {NoColumn, last.col}
    /\ ~gui.sort_reverse

(***************************************************************************)
(* C29. Books Viewer: after a click on a column header the table shows the *)
(* list it showed before, sorted by that column in the selected            *)
(* direction, with a filter active and with none.                          *)
(***************************************************************************)
C29_ViewerShowsSortedList ==
    (backend = "viewer" /\ last.op = "sort")
    => /\ IsPermutation(gui.current_data, ShownBefore)
       /\ OrderedBy(gui.current_data, last.col, gui.sort_reverse)

\* A filter is active: at least one criterion of the dict is non-empty.
FilterActive(g) ==
    \E f \in DOMAIN g.current_filter : Truthy(g.current_filter[f])

(***************************************************************************)
(* C26. Books Viewer: a refresh of the table (at the end of a sort, of     *)
(* Apply Filter, of Clear Filter, or by the Reload button) reloads the     *)
(* records from the file and shows all of them unless a filter is active;  *)
(* Apply Filter with every field empty counts as no filter.  While a       *)
(* filter is active the Reload button leaves the list shown and the        *)
(* records in memory as they were, and a sort only reorders the list.      *)
(***************************************************************************)
C26_RefreshReloadsUnlessFiltered ==
    (backend = "viewer" /\ last.op \in TableOps)
    => /\ ~FilterActive(gui)
          => /\ df = ViewerLoadData(file)
             /\ gui.current_data = ViewerGetAllRecords(df)
       /\ (FilterActive(gui) /\ last.op = "refresh")
          => /\ gui.current_data = ShownBefore
             /\ df = last.before
       /\ (FilterActive(gui) /\ last.op = "sort")
          => /\ IsPermutation(gui.current_data, ShownBefore)
             /\ df = last.before

\* The rows selected when delete_book started, as a list.
SelectedRows ==
    LET Sel(k) == k \in last.selection
        picked == SelectSeq([k \in 1..Len(ShownBefore) |-> k], Sel)
    IN [j \in 1..Len(picked) |-> ShownBefore[picked[j]]]

(***************************************************************************)
(* C28. Library Manager delete_book: for any rows selected in the table,   *)
(* filtered or sorted, a confirmed delete succeeds and removes from the    *)
(* store exactly the records selected: every record is left as often as    *)
(* it was there and not selected, in the order the records had, also when  *)
(* records share the ISBN of a row selected.                               *)
(***************************************************************************)
C28_DeleteBookRemovesSelection ==
    last.op = "delete_book"
    => /\ last.result = Ok
       /\ IsSubsequence(df, last.before)
       /\ \A i \in 1..Len(last.before) :
             Occurrences(df, last.before[i])
                = Occurrences(last.before, last.before[i])
                  - Occurrences(SelectedRows, last.before[i])

(***************************************************************************)
(* Vocabulary of the properties of the data file.                          *)
(***************************************************************************)
Mutations == {"add", "update", "delete", "merge", "replace"}

\* Two lists hold the same records in the same order, a missing cell
\* counting as the empty text.
SameRecords(a, b) ==
    /\ Len(a) = Len(b)
    /\ \A i \in 1..Len(a) : \A c \in ColumnSet :
          TextOf(a[i][c]) = TextOf(b[i][c])

(***************************************************************************)
(* C24. When add_record, update_record, delete_record, import_csv_merge or *)
(* import_csv of LibraryManager fails, for whatever reason, a failed write *)
(* in save_data included, the records in memory are those before the call  *)
(* and the data file is as it was.                                         *)
(***************************************************************************)
C24_FailureLeavesRecords ==
    (backend = "text" /\ last.op \in Mutations /\ last.result # Ok)
    => /\ df = last.before
       /\ file = last.file

(***************************************************************************)
(* C27. Write-through: after every successful add_record, update_record,   *)
(* delete_record, import_csv_merge and import_csv the data file holds the  *)
(* records in memory: a new LibraryManager on the file returns the same    *)
(* records in the same order from get_all_records.  Stated in favour of    *)
(* the code: a missing cell counts as the empty text.                      *)
(***************************************************************************)
C27_WriteThrough ==
    (backend = "text" /\ last.op \in Mutations /\ last.result = Ok)
    => SameRecords(TextGetAllRecords(LoadData(file)), TextGetAllRecords(df))

\* The data file holds the records it held before the last call and one
\* more, told by their number.
PersistedRecordsKept == Len(file.rows) = Len(last.file.rows) + 1

(***************************************************************************)
(* C30. When an existing data file cannot be read or parsed, the load of   *)
(* LibraryManager or ViewerDataManager reports an error to its caller and  *)
(* does not present an empty store; so a later successful add_record never *)
(* writes a file that lacks a record persisted before.                     *)
(***************************************************************************)
C30_LoadFailureSurfaced ==
    /\ (last.op = "open" /\ last.file.exists /\ ~last.read_ok)
       => last.result # Ok
    /\ (last.op = "add" /\ last.result = Ok) => PersistedRecordsKept

\* No field of the records of a list is missing.
NoNullField(list) ==
    \A i \in 1..Len(list) : \A c \in ColumnSet : ~IsNull(list[i][c])

(***************************************************************************)
(* C25. No record that get_all_records or filter_records returns has a     *)
(* missing value in a field: a field that is missing in the store comes    *)
(* back as the empty text, in the text-file backend, the viewer and the    *)
(* relational backend.                                                     *)
(***************************************************************************)
C25_NoNullReturned ==
    last.op = "filter" => NoNullField(Shown) /\ NoNullField(last.found)

=============================================================================
